---- MODULE Spec2Model ----
(***************************************************************************)
(* Sales analytics pipeline (src/Sales_Analytics_Pipeline.py).             *)
(*                                                                         *)
(* The notebook is a straight-line batch program: STEP 2 validates the raw *)
(* frame, STEP 3 enriches it and builds the customer aggregates, STEP 4    *)
(* computes the KPIs, STEP 5 the advanced analytics, STEP 6 the summary    *)
(* tables and STEP 7 the export summary.  Each notebook cell is one action *)
(* of the model; a cell that raises leaves the assignments made before the *)
(* raise in place and stops the run (pc = "failed").                       *)
(*                                                                         *)
(* Values.  A cell of a frame is an option: <<>> is a missing value        *)
(* (None / NaN / NaT) and <<v>> is the value v.  Money is counted in       *)
(* thousandths of a currency unit so that round(2) is a real rounding.     *)
(* A raw transaction_date is the text "Y-m-d H:..", modelled by its        *)
(* components [text |-> <<y, m, d, h>>]; a parsed Timestamp is             *)
(* [hours |-> n], the number of hours since 1970-01-01 00:00.  The columns *)
(* product_id, payment_method and region are never read by a modelled      *)
(* computation and are left out, and so are the tables that only read the  *)
(* frames and that nothing else reads (clv_analysis, regional_performance, *)
(* category_matrix).  Every transaction_date text of an input batch is     *)
(* parseable, so pd.to_datetime does not raise.  An empty batch is a frame *)
(* that has the columns of the schema and no rows.                         *)
(***************************************************************************)
EXTENDS Integers, Sequences, FiniteSets, TLC

VARIABLES
    pc,                  \* the notebook cell to run next, "done" or "failed"
    error,               \* the exception that stopped the run, "" when none
    df_raw,              \* sequence of raw transaction rows
    quality_report,      \* <<>> until STEP 2 has run, then <<report>>
    df_transformed,      \* [columns, rows]: the enriched frame
    customer_stats,      \* function customer_id -> aggregate row
    total_revenue, total_transactions, avg_order_value, unique_customers,
    revenue_by_category, revenue_by_channel, daily_revenue, top_products,
    hourly_sales, peak_hour, weekend_performance,
    monthly_summary, segment_analysis,
    export_summary,
    fn_arg,              \* argument of a single function call (SpecFn)
    fn_out               \* its result, <<>> until the call has been made

\* A variable assigned by a later cell holds <<>> until the cell assigns it
\* and <<v>> afterwards.
kpiVars == <<total_revenue, total_transactions, avg_order_value,
             unique_customers, revenue_by_category, revenue_by_channel,
             daily_revenue, top_products>>

advVars == <<hourly_sales, peak_hour, weekend_performance>>

sumVars == <<monthly_summary, segment_analysis>>

fnVars == <<fn_arg, fn_out>>

vars == <<pc, error, df_raw, quality_report, df_transformed, customer_stats,
          kpiVars, advVars, sumVars, export_summary, fnVars>>

(***************************************************************************)
(* Bounds and values                                                       *)
(***************************************************************************)
MaxBatch == 3

NaN == <<>>

Some(v) == <<v>>

Val(x) == x[1]

IsNull(x) == x = NaN

Dollars(n) == n * 1000

Min(a, b) == IF a <= b THEN a ELSE b

RECURSIVE SumSeq(_)
SumSeq(s) == IF s = <<>> THEN 0 ELSE Head(s) + SumSeq(Tail(s))

\* the ascending sequence of the members of a finite set of integers
RECURSIVE SortedSeq(_)
SortedSeq(S) ==
    IF S = {} THEN <<>>
    ELSE LET m == CHOOSE x \in S : \A y \in S : x <= y
         IN  <<m>> \o SortedSeq(S \ {m})

SeqUpTo(R, n) == UNION { [1..k -> R] : k \in 0..n }

BaseColumns ==
    <<"transaction_id", "product_name", "category", "quantity", "unit_price",
      "total_amount", "transaction_date", "customer_id", "sales_channel">>

ColumnSet(cols) == { cols[i] : i \in 1..Len(cols) }

(***************************************************************************)
(* STEP 2: validate_data_quality                                           *)
(***************************************************************************)
\* df.isnull().sum(): per column, the number of rows whose cell is missing
IsNullSum(df, col) == Cardinality({ i \in 1..Len(df) : IsNull(df[i][col]) })

\* missing_data.sum(): the total over the columns
MissingTotal(df) ==
    SumSeq([ c \in 1..Len(BaseColumns) |-> IsNullSum(df, BaseColumns[c]) ])

\* df['transaction_id'].duplicated().sum(): rows whose id occurred earlier
\* (pandas compares missing ids as equal to each other)
DuplicatedSum(df) ==
    Cardinality({ i \in 1..Len(df) :
        \E j \in 1..(i - 1) : df[j].transaction_id = df[i].transaction_id })

\* (df['unit_price'] <= 0).sum(): a missing price compares False
NonPositivePriceSum(df) ==
    Cardinality({ i \in 1..Len(df) :
        ~IsNull(df[i].unit_price) /\ Val(df[i].unit_price) <= 0 })

Issue(kind, count) == [kind |-> kind, count |-> count]

\* a validator that charges each penalty once per offending value
validate_data_quality_per_value(df) ==
    LET missing   == MissingTotal(df)
        dups      == DuplicatedSum(df)
        negative  == NonPositivePriceSum(df)
        issues1   == IF missing > 0
                     THEN <<Issue("Missing values", missing)>> ELSE <<>>
        issues2   == IF dups > 0
                     THEN Append(issues1, Issue("Duplicate IDs", dups))
                     ELSE issues1
        issues3   == IF negative > 0
                     THEN Append(issues2, Issue("Invalid prices", negative))
                     ELSE issues2
    IN  [total_records     |-> Len(df),
         issues_found      |-> issues3,
         data_health_score |-> 100 - 10 * missing - 15 * dups - 20 * negative]

validate_data_quality(df) ==
    LET missing   == MissingTotal(df)
        dups      == DuplicatedSum(df)
        negative  == NonPositivePriceSum(df)
        issues1   == IF missing > 0
                     THEN <<Issue("Missing values", missing)>> ELSE <<>>
        score1    == IF missing > 0 THEN 100 - 10 ELSE 100
        issues2   == IF dups > 0
                     THEN Append(issues1, Issue("Duplicate IDs", dups))
                     ELSE issues1
        score2    == IF dups > 0 THEN score1 - 15 ELSE score1
        issues3   == IF negative > 0
                     THEN Append(issues2, Issue("Invalid prices", negative))
                     ELSE issues2
        score3    == IF negative > 0 THEN score2 - 20 ELSE score2
    IN  [total_records     |-> Len(df),
         issues_found      |-> issues3,
         data_health_score |-> score3]

(***************************************************************************)
(* STEP 3: ETL transformations                                             *)
(***************************************************************************)
\* days from 1970-01-01 to the civil date y-m-d (proleptic Gregorian)
DaysFromCivil(y, m, d) ==
    LET yy  == IF m <= 2 THEN y - 1 ELSE y
        era == yy \div 400
        yoe == yy - era * 400
        mp  == IF m > 2 THEN m - 3 ELSE m + 9
        doy == (153 * mp + 2) \div 5 + d - 1
        doe == yoe * 365 + yoe \div 4 - yoe \div 100 + doy
    IN  era * 146097 + doe - 719468

\* the civil date <<y, m, d>> of a day number
CivilFromDays(z0) ==
    LET z   == z0 + 719468
        era == z \div 146097
        doe == z - era * 146097
        yoe == (doe - doe \div 1460 + doe \div 36524 - doe \div 146096) \div 365
        doy == doe - (365 * yoe + yoe \div 4 - yoe \div 100)
        mp  == (5 * doy + 2) \div 153
        d   == doy - (153 * mp + 2) \div 5 + 1
        m   == IF mp < 10 THEN mp + 3 ELSE mp - 9
        y   == yoe + era * 400 + (IF m <= 2 THEN 1 ELSE 0)
    IN  <<y, m, d>>

Text(y, m, d, h) == [text |-> <<y, m, d, h>>]

Timestamp(n) == [hours |-> n]

\* pd.to_datetime on one cell: the text becomes a Timestamp; a missing cell
\* becomes NaT
to_datetime(cell) ==
    IF IsNull(cell) THEN NaN
    ELSE LET t == Val(cell).text
         IN  Some(Timestamp(DaysFromCivil(t[1], t[2], t[3]) * 24 + t[4]))

\* line 137: the conversion is assigned back into df_raw
ConvertDates(df) ==
    [ i \in 1..Len(df) |->
        [df[i] EXCEPT !.transaction_date = to_datetime(@)] ]

DayNames ==
    <<"Monday", "Tuesday", "Wednesday", "Thursday", "Friday", "Saturday",
      "Sunday">>

Hours(ts) == Val(ts).hours

dt_year(ts)  == IF IsNull(ts) THEN NaN ELSE Some(CivilFromDays(Hours(ts) \div 24)[1])
dt_month(ts) == IF IsNull(ts) THEN NaN ELSE Some(CivilFromDays(Hours(ts) \div 24)[2])
dt_day(ts)   == IF IsNull(ts) THEN NaN ELSE Some(CivilFromDays(Hours(ts) \div 24)[3])
dt_hour(ts)  == IF IsNull(ts) THEN NaN ELSE Some(Hours(ts) % 24)
dt_date(ts)  == IF IsNull(ts) THEN NaN ELSE Some(Hours(ts) \div 24)

\* 1970-01-01 was a Thursday
dt_day_name(ts) ==
    IF IsNull(ts) THEN NaN
    ELSE Some(DayNames[((Hours(ts) \div 24 + 3) % 7) + 1])

\* a bucketing with left-closed intervals (pd.cut(..., right=False))
revenue_category_left_closed(amount) ==
    IF IsNull(amount) THEN NaN
    ELSE LET x == Val(amount)
         IN  IF x >= Dollars(0) /\ x < Dollars(100) THEN Some("Low")
             ELSE IF x >= Dollars(100) /\ x < Dollars(500) THEN Some("Medium")
             ELSE IF x >= Dollars(500) /\ x < Dollars(1000) THEN Some("High")
             ELSE IF x >= Dollars(1000) THEN Some("Premium")
             ELSE NaN

\* pd.cut(total_amount, bins=[0, 100, 500, 1000, inf], labels=[...]):
\* right-closed intervals; a value in no interval (missing, or <= 0) gets NaN
revenue_category(amount) ==
    IF IsNull(amount) THEN NaN
    ELSE LET x == Val(amount)
         IN  IF x > Dollars(0) /\ x <= Dollars(100) THEN Some("Low")
             ELSE IF x > Dollars(100) /\ x <= Dollars(500) THEN Some("Medium")
             ELSE IF x > Dollars(500) /\ x <= Dollars(1000) THEN Some("High")
             ELSE IF x > Dollars(1000) THEN Some("Premium")
             ELSE NaN

EnrichedColumns ==
    BaseColumns \o <<"year", "month", "day", "hour", "day_of_week",
                     "revenue_category">>

\* lines 140-152 on one row whose transaction_date is already a Timestamp
Enrich(r) ==
    [transaction_id   |-> r.transaction_id,
     product_name     |-> r.product_name,
     category         |-> r.category,
     quantity         |-> r.quantity,
     unit_price       |-> r.unit_price,
     total_amount     |-> r.total_amount,
     transaction_date |-> r.transaction_date,
     customer_id      |-> r.customer_id,
     sales_channel    |-> r.sales_channel,
     year             |-> dt_year(r.transaction_date),
     month            |-> dt_month(r.transaction_date),
     day              |-> dt_day(r.transaction_date),
     hour             |-> dt_hour(r.transaction_date),
     day_of_week      |-> dt_day_name(r.transaction_date),
     revenue_category |-> revenue_category(r.total_amount)]

Transform(df) == [ i \in 1..Len(df) |-> Enrich(df[i]) ]

\* round-half-even of n/d to a whole number of hundredths, in thousandths
Round2Div(n, d) ==
    LET den == 10 * d
        q   == n \div den
        r   == n % den
    IN  IF 2 * r < den THEN 10 * q
        ELSE IF 2 * r > den THEN 10 * (q + 1)
        ELSE IF q % 2 = 0 THEN 10 * q ELSE 10 * (q + 1)

Round2(n) == Round2Div(n, 1)

\* the row numbers of a group: groupby drops the rows whose key is missing
GroupRows(df, col, key) ==
    { i \in 1..Len(df) : ~IsNull(df[i][col]) /\ Val(df[i][col]) = key }

GroupKeys(df, col) ==
    { Val(df[i][col]) : i \in { j \in 1..Len(df) : ~IsNull(df[j][col]) } }

\* 'sum' skips missing values, 'count' counts the values that are present
SumAmount(df, I) ==
    LET idx == SortedSeq(I)
    IN  SumSeq([ k \in 1..Len(idx) |->
            IF IsNull(df[idx[k]].total_amount) THEN 0
            ELSE Val(df[idx[k]].total_amount) ])

CountAmount(df, I) == Cardinality({ i \in I : ~IsNull(df[i].total_amount) })

MaxDate(df, I) ==
    LET D == { Hours(df[i].transaction_date) :
                 i \in { j \in I : ~IsNull(df[j].transaction_date) } }
    IN  IF D = {} THEN NaN
        ELSE Some(Timestamp(CHOOSE x \in D : \A y \in D : y <= x))

\* a classifier whose spend thresholds are not strict
categorize_customer_inclusive(row) ==
    IF row.total_spent >= Dollars(2000) /\ row.order_count > 10 THEN "VIP"
    ELSE IF row.total_spent >= Dollars(1000) \/ row.order_count > 5 THEN "Regular"
    ELSE "New"

categorize_customer(row) ==
    IF row.total_spent > Dollars(2000) /\ row.order_count > 10 THEN "VIP"
    ELSE IF row.total_spent > Dollars(1000) \/ row.order_count > 5 THEN "Regular"
    ELSE "New"

\* lines 155-161 for one customer
CustomerRow(df, c) ==
    LET I     == GroupRows(df, "customer_id", c)
        spent == Round2(SumAmount(df, I))
        cnt   == CountAmount(df, I)
    IN  [total_spent     |-> spent,
         order_count     |-> cnt,
         last_purchase   |-> MaxDate(df, I),
         avg_order_value |-> IF cnt = 0 THEN NaN
                             ELSE Some(Round2Div(spent, cnt))]

\* line 172: the segment column
WithSegment(row) ==
    [total_spent     |-> row.total_spent,
     order_count     |-> row.order_count,
     last_purchase   |-> row.last_purchase,
     avg_order_value |-> row.avg_order_value,
     segment         |-> categorize_customer(row)]

CustomerStats(df) ==
    [ c \in GroupKeys(df, "customer_id") |-> WithSegment(CustomerRow(df, c)) ]

(***************************************************************************)
(* STEP 4: business KPIs                                                   *)
(***************************************************************************)
\* Names (category, sales_channel, product_name) are numbered in their
\* lexicographic order, the order in which groupby lists its groups.
AllRows(df) == 1..Len(df)

\* Series.mean(): the exact quotient <<sum, count>>, NaN over no values
MeanAmount(df, I) ==
    IF CountAmount(df, I) = 0 THEN NaN
    ELSE Some(<<SumAmount(df, I), CountAmount(df, I)>>)

\* nunique(): missing values are not counted
NUnique(df, col, I) ==
    Cardinality({ df[i][col] : i \in { j \in I : ~IsNull(df[j][col]) } })

\* df.groupby(col)['total_amount'].sum(): one entry per key, keys ascending
GroupSum(df, col) ==
    LET ks == SortedSeq(GroupKeys(df, col))
    IN  [ k \in 1..Len(ks) |->
            [key          |-> ks[k],
             total_amount |-> SumAmount(df, GroupRows(df, col, ks[k]))] ]

\* the first position holding the largest total_amount
FirstMaxIndex(s) ==
    CHOOSE i \in 1..Len(s) :
        /\ \A j \in 1..Len(s) : s[j].total_amount <= s[i].total_amount
        /\ \A j \in 1..(i - 1) : s[j].total_amount < s[i].total_amount

Orders(n) ==
    { f \in [1..n -> 1..n] : \A i, j \in 1..n : f[i] = f[j] => i = j }

\* sort_values(ascending=False) with the default kind='quicksort', which is
\* not a stable sort: every descending arrangement of the entries is a
\* possible result, whatever order equal values had before
SortValuesDesc(s) ==
    { t \in { [ i \in 1..Len(s) |-> s[f[i]] ] : f \in Orders(Len(s)) } :
        \A i \in 1..(Len(t) - 1) : t[i].total_amount >= t[i + 1].total_amount }

SumQuantity(df, I) ==
    LET idx == SortedSeq(I)
    IN  SumSeq([ k \in 1..Len(idx) |->
            IF IsNull(df[idx[k]].quantity) THEN 0
            ELSE Val(df[idx[k]].quantity) ])

\* groupby('product_name').agg({'total_amount': 'sum', 'quantity': 'sum'})
ProductTotals(df) ==
    LET ks == SortedSeq(GroupKeys(df, "product_name"))
    IN  [ k \in 1..Len(ks) |->
            LET I == GroupRows(df, "product_name", ks[k])
            IN  [key          |-> ks[k],
                 total_amount |-> SumAmount(df, I),
                 quantity     |-> SumQuantity(df, I)] ]

\* groupby(transaction_date.dt.date)['total_amount'].sum(), dates ascending
DailyRevenue(df) ==
    LET Has == { i \in 1..Len(df) : ~IsNull(df[i].transaction_date) }
        ks  == SortedSeq({ Val(dt_date(df[i].transaction_date)) : i \in Has })
    IN  [ k \in 1..Len(ks) |->
            [key          |-> ks[k],
             total_amount |-> SumAmount(df,
                 { i \in Has : Val(dt_date(df[i].transaction_date)) = ks[k] })] ]

HeadN(s, n) == SubSeq(s, 1, Min(n, Len(s)))

TopProducts(df) == { HeadN(t, 5) : t \in SortValuesDesc(ProductTotals(df)) }

\* (customer_stats['order_count'] > 1).mean()
RetentionRate(cs) ==
    IF DOMAIN cs = {} THEN NaN
    ELSE Some(<<Cardinality({ c \in DOMAIN cs : cs[c].order_count > 1 }),
                Cardinality(DOMAIN cs)>>)

(***************************************************************************)
(* STEP 5: advanced analytics                                              *)
(***************************************************************************)
\* an idxmax that returns the key of the last largest value
IdxMaxLast(s) ==
    s[CHOOSE i \in 1..Len(s) :
        /\ \A j \in 1..Len(s) : s[j].total_amount <= s[i].total_amount
        /\ \A j \in (i + 1)..Len(s) : s[j].total_amount < s[i].total_amount].key

\* Series.idxmax(): the key of the first largest value
IdxMax(s) == s[FirstMaxIndex(s)].key

\* line 237: the is_weekend column is added to df_transformed in place
AddIsWeekend(df) ==
    [columns |-> Append(df.columns, "is_weekend"),
     rows    |-> [ i \in 1..Len(df.rows) |->
                    [ c \in DOMAIN df.rows[i] \cup {"is_weekend"} |->
                        IF c = "is_weekend"
                        THEN df.rows[i].day_of_week
                                 \in {Some("Saturday"), Some("Sunday")}
                        ELSE df.rows[i][c] ] ]]

\* groupby('is_weekend')['total_amount'].agg(['sum', 'mean'])
WeekendPerformance(rows) ==
    [ w \in { rows[i].is_weekend : i \in 1..Len(rows) } |->
        LET I == { i \in 1..Len(rows) : rows[i].is_weekend = w }
        IN  [sum |-> SumAmount(rows, I), mean |-> MeanAmount(rows, I)] ]

(***************************************************************************)
(* STEP 6: summary tables                                                  *)
(***************************************************************************)
\* groupby(['year', 'month']): the rows whose year and month are present
MonthKeys(rows) ==
    { <<Val(rows[i].year), Val(rows[i].month)>> :
        i \in { j \in 1..Len(rows) : ~IsNull(rows[j].year) } }

MonthlySummary(rows) ==
    [ ym \in MonthKeys(rows) |->
        LET I == { i \in 1..Len(rows) :
                     /\ ~IsNull(rows[i].year)
                     /\ <<Val(rows[i].year), Val(rows[i].month)>> = ym }
        IN  [revenue          |-> Round2(SumAmount(rows, I)),
             transactions     |-> CountAmount(rows, I),
             avg_order_value  |->
                 IF CountAmount(rows, I) = 0 THEN NaN
                 ELSE Some(Round2Div(SumAmount(rows, I), CountAmount(rows, I))),
             unique_customers |-> NUnique(rows, "customer_id", I)] ]

\* merge(customer_stats[['segment']], left_on='customer_id', right_index=True)
\* keeps the rows whose customer has an aggregate; then groupby('segment')
SegmentAnalysis(rows, cs) ==
    LET J == { i \in 1..Len(rows) :
                 ~IsNull(rows[i].customer_id)
                 /\ Val(rows[i].customer_id) \in DOMAIN cs }
        SegOf(i) == cs[Val(rows[i].customer_id)].segment
    IN  [ g \in { SegOf(i) : i \in J } |->
            LET I == { i \in J : SegOf(i) = g }
            IN  [sum       |-> Round2(SumAmount(rows, I)),
                 count     |-> CountAmount(rows, I),
                 customers |-> NUnique(rows, "customer_id", I)] ]

(***************************************************************************)
(* STEP 7: export summary                                                  *)
(***************************************************************************)
FrameInfo(n, cols) == [records |-> n, columns |-> cols]

SeriesInfo(n) == [records |-> n, data_type |-> "Series", categories |-> n]

CustomerColumns ==
    <<"total_spent", "order_count", "last_purchase", "avg_order_value",
      "segment">>

ExportSummary(df, cs, monthly, top, by_cat, by_chan, daily) ==
    [sales_transactions  |-> FrameInfo(Len(df.rows), df.columns),
     customer_segments   |-> FrameInfo(Cardinality(DOMAIN cs), CustomerColumns),
     monthly_summary     |-> FrameInfo(Cardinality(DOMAIN monthly),
                                 <<"revenue", "transactions",
                                   "avg_order_value", "unique_customers">>),
     top_products        |-> FrameInfo(Len(top), <<"total_amount", "quantity">>),
     revenue_by_category |-> SeriesInfo(Len(by_cat)),
     revenue_by_channel  |-> SeriesInfo(Len(by_chan)),
     daily_revenue       |-> SeriesInfo(Len(daily))]

(***************************************************************************)
(* Input batches                                                           *)
(***************************************************************************)
Row(tid, prod, cat, qty, price, amount, date, cust, chan) ==
    [transaction_id   |-> tid,
     product_name     |-> prod,
     category         |-> cat,
     quantity         |-> qty,
     unit_price       |-> price,
     total_amount     |-> amount,
     transaction_date |-> date,
     customer_id      |-> cust,
     sales_channel    |-> chan]

\* "2024-12-27 09:.." is a Friday, "2024-12-28 .." a Saturday and
\* "2025-01-01 14:.." a Wednesday
Fri9  == Some(Text(2024, 12, 27, 9))
Sat9  == Some(Text(2024, 12, 28, 9))
Sat14 == Some(Text(2024, 12, 28, 14))
Wed14 == Some(Text(2025, 1, 1, 14))

\* rows that differ in customer, amount and day
RowsMain ==
    { Row(Some(1), Some(1), Some(1), Some(1), Some(Dollars(20)), a, d, c,
          Some(1)) :
        a \in {NaN, Some(4), Some(Dollars(100))},
        d \in {Fri9, Sat9},
        c \in {NaN, Some(1), Some(2)} }

\* rows that differ in what the validator looks at
RowsQuality ==
    { Row(t, Some(1), Some(1), Some(1), p, Some(Dollars(100)), Fri9, c,
          Some(1)) :
        t \in {NaN, Some(1), Some(2)},
        p \in {NaN, Some(0), Some(Dollars(20))},
        c \in {NaN, Some(1)} }
    \cup
    { Row(t, Some(1), Some(1), Some(1), Some(Dollars(20)),
          Some(Dollars(100)), Sat9, Some(1), Some(1)) :
        t \in {Some(1), Some(2)} }

\* rows that differ in product, amount and day
RowsTop ==
    { Row(Some(1), Some(p), Some(1), Some(1), Some(Dollars(20)), Some(a), d,
          Some(1), Some(1)) :
        p \in 1..3,
        a \in {Dollars(100), Dollars(250)},
        d \in {Fri9, Sat9} }

\* rows that differ in hour and amount
RowsHour ==
    { Row(Some(1), Some(1), Some(1), Some(1), Some(Dollars(20)), a, d,
          Some(1), Some(1)) :
        a \in {NaN, Some(Dollars(100)), Some(Dollars(250))},
        d \in {NaN, Fri9, Sat9, Sat14, Wed14} }

NoFrame == [columns |-> <<>>, rows |-> <<>>]

NoCall == [fn |-> "none"]

InitPipeline(R) ==
    /\ df_raw \in SeqUpTo(R, MaxBatch)
    /\ pc = "validate"
    /\ error = ""
    /\ quality_report = NaN
    /\ df_transformed = NoFrame
    /\ customer_stats = <<>>
    /\ total_revenue = NaN
    /\ total_transactions = NaN
    /\ avg_order_value = NaN
    /\ unique_customers = NaN
    /\ revenue_by_category = NaN
    /\ revenue_by_channel = NaN
    /\ daily_revenue = NaN
    /\ top_products = NaN
    /\ hourly_sales = NaN
    /\ peak_hour = NaN
    /\ weekend_performance = NaN
    /\ monthly_summary = NaN
    /\ segment_analysis = NaN
    /\ export_summary = NaN
    /\ fn_arg = NoCall
    /\ fn_out = NaN

Init == InitPipeline(RowsMain)

InitQuality == InitPipeline(RowsQuality)

InitTop == InitPipeline(RowsTop)

InitHour == InitPipeline(RowsHour)

(***************************************************************************)
(* The notebook cells                                                      *)
(***************************************************************************)
\* STEP 2 (lines 94-127)
StepValidate ==
    /\ pc = "validate"
    /\ quality_report' = Some(validate_data_quality(df_raw))
    /\ pc' = "etl"
    /\ UNCHANGED <<error, df_raw, df_transformed, customer_stats, kpiVars,
                   advVars, sumVars, export_summary, fnVars>>

\* STEP 3 (lines 137-179)
StepETL ==
    /\ pc = "etl"
    /\ df_raw' = ConvertDates(df_raw)
    /\ df_transformed' = [columns |-> EnrichedColumns,
                          rows    |-> Transform(df_raw')]
    /\ customer_stats' = CustomerStats(df_transformed'.rows)
    /\ pc' = "kpi"
    /\ UNCHANGED <<error, quality_report, kpiVars, advVars, sumVars,
                   export_summary, fnVars>>

\* STEP 4 (lines 189-223): the tables are assigned, then the report lines
\* index the first entry of revenue_by_category and revenue_by_channel
StepKPI ==
    /\ pc = "kpi"
    /\ LET df == df_transformed.rows
       IN  /\ total_revenue' = Some(SumAmount(df, AllRows(df)))
           /\ total_transactions' = Some(Len(df))
           /\ avg_order_value' = Some(MeanAmount(df, AllRows(df)))
           /\ unique_customers' = Some(NUnique(df, "customer_id", AllRows(df)))
           /\ \E t \in SortValuesDesc(GroupSum(df, "category")) :
                  revenue_by_category' = Some(t)
           /\ \E t \in SortValuesDesc(GroupSum(df, "sales_channel")) :
                  revenue_by_channel' = Some(t)
           /\ daily_revenue' = Some(DailyRevenue(df))
           /\ \E t \in TopProducts(df) : top_products' = Some(t)
    /\ IF Val(revenue_by_category') = <<>> \/ Val(revenue_by_channel') = <<>>
       THEN pc' = "failed" /\ error' = "IndexError"
       ELSE pc' = "advanced" /\ error' = error
    /\ UNCHANGED <<df_raw, quality_report, df_transformed, customer_stats,
                   advVars, sumVars, export_summary, fnVars>>

\* STEP 5 (lines 233-259): idxmax raises on an empty series, before
\* is_weekend is added; the report line looks up the True and False groups
StepAdvanced ==
    /\ pc = "advanced"
    /\ hourly_sales' = Some(GroupSum(df_transformed.rows, "hour"))
    /\ IF Val(hourly_sales') = <<>>
       THEN /\ pc' = "failed"
            /\ error' = "ValueError"
            /\ UNCHANGED <<peak_hour, df_transformed, weekend_performance>>
       ELSE /\ peak_hour' = Some(IdxMax(Val(hourly_sales')))
            /\ df_transformed' = AddIsWeekend(df_transformed)
            /\ weekend_performance' =
                   Some(WeekendPerformance(df_transformed'.rows))
            /\ IF DOMAIN Val(weekend_performance') = {TRUE, FALSE}
               THEN pc' = "summary" /\ error' = error
               ELSE pc' = "failed" /\ error' = "KeyError"
    /\ UNCHANGED <<df_raw, quality_report, customer_stats, kpiVars, sumVars,
                   export_summary, fnVars>>

\* STEP 6 (lines 269-300)
StepSummary ==
    /\ pc = "summary"
    /\ monthly_summary' = Some(MonthlySummary(df_transformed.rows))
    /\ segment_analysis' =
           Some(SegmentAnalysis(df_transformed.rows, customer_stats))
    /\ pc' = "export"
    /\ UNCHANGED <<error, df_raw, quality_report, df_transformed,
                   customer_stats, kpiVars, advVars, export_summary, fnVars>>

\* STEP 7 (lines 310-352)
StepExport ==
    /\ pc = "export"
    /\ export_summary' =
           Some(ExportSummary(df_transformed, customer_stats,
                              Val(monthly_summary), Val(top_products),
                              Val(revenue_by_category),
                              Val(revenue_by_channel), Val(daily_revenue)))
    /\ pc' = "done"
    /\ UNCHANGED <<error, df_raw, quality_report, df_transformed,
                   customer_stats, kpiVars, advVars, sumVars, fnVars>>

Next ==
    \/ StepValidate
    \/ StepETL
    \/ StepKPI
    \/ StepAdvanced
    \/ StepSummary
    \/ StepExport

Spec == Init /\ [][Next]_vars

SpecQuality == InitQuality /\ [][Next]_vars

SpecTop == InitTop /\ [][Next]_vars

SpecHour == InitHour /\ [][Next]_vars

(***************************************************************************)
(* Single calls of the row functions of STEP 3                             *)
(***************************************************************************)
MaxOrders == 12

SpentValues ==
    { 0, Dollars(500), Dollars(1000), Dollars(1000) + 10, Dollars(2000),
      Dollars(2000) + 10, Dollars(2001), Dollars(3000) }

AmountValues ==
    { NaN, Some(0 - Dollars(5)), Some(0), Some(10), Some(Dollars(50)),
      Some(Dollars(100)), Some(Dollars(100) + 10), Some(Dollars(500)),
      Some(Dollars(500) + 10), Some(Dollars(1000)), Some(Dollars(1000) + 10),
      Some(Dollars(1000000)) }

FnArgs ==
    { [fn  |-> "categorize_customer",
       row |-> [total_spent |-> t, order_count |-> n]] :
        t \in SpentValues, n \in 0..MaxOrders }
    \cup
    { [fn  |-> "Enrich",
       row |-> Row(Some(1), Some(1), Some(1), Some(1), Some(Dollars(20)), a,
                   d, Some(1), Some(1))] :
        a \in AmountValues, d \in {NaN, Fri9, Sat14, Wed14} }

InitFn ==
    /\ df_raw = <<>>
    /\ pc = "call"
    /\ error = ""
    /\ quality_report = NaN
    /\ df_transformed = NoFrame
    /\ customer_stats = <<>>
    /\ total_revenue = NaN
    /\ total_transactions = NaN
    /\ avg_order_value = NaN
    /\ unique_customers = NaN
    /\ revenue_by_category = NaN
    /\ revenue_by_channel = NaN
    /\ daily_revenue = NaN
    /\ top_products = NaN
    /\ hourly_sales = NaN
    /\ peak_hour = NaN
    /\ weekend_performance = NaN
    /\ monthly_summary = NaN
    /\ segment_analysis = NaN
    /\ export_summary = NaN
    /\ fn_arg \in FnArgs
    /\ fn_out = NaN

\* customer_stats.apply(categorize_customer, axis=1) on one aggregate row
CallCategorize ==
    /\ pc = "call"
    /\ fn_arg.fn = "categorize_customer"
    /\ fn_out' = Some(categorize_customer(fn_arg.row))
    /\ pc' = "returned"
    /\ UNCHANGED <<error, df_raw, quality_report, df_transformed,
                   customer_stats, kpiVars, advVars, sumVars, export_summary,
                   fn_arg>>

\* lines 137-152 on a frame of one row
CallEnrich ==
    /\ pc = "call"
    /\ fn_arg.fn = "Enrich"
    /\ fn_out' = Some(Transform(ConvertDates(<<fn_arg.row>>))[1])
    /\ pc' = "returned"
    /\ UNCHANGED <<error, df_raw, quality_report, df_transformed,
                   customer_stats, kpiVars, advVars, sumVars, export_summary,
                   fn_arg>>

NextFn == CallCategorize \/ CallEnrich

SpecFn == InitFn /\ [][NextFn]_vars

(***************************************************************************)
(* Properties                                                              *)
(***************************************************************************)
B(p) == IF p THEN 1 ELSE 0

HasMissing(df) ==
    \E i \in 1..Len(df) : \E c \in ColumnSet(BaseColumns) : df[i][c] = NaN

\* two rows carry the same transaction_id cell (two missing ids count as
\* the same id, as they do for duplicated())
HasDuplicateId(df) ==
    \E i, j \in 1..Len(df) :
        i # j /\ df[i].transaction_id = df[j].transaction_id

HasNonPositivePrice(df) ==
    \E i \in 1..Len(df) :
        df[i].unit_price # NaN /\ Val(df[i].unit_price) <= 0

IssueKinds(q) == { q.issues_found[k].kind : k \in 1..Len(q.issues_found) }

C2_SegmentPriority ==
    (fn_arg.fn = "categorize_customer" /\ fn_out # NaN) =>
        LET t   == fn_arg.row.total_spent
            n   == fn_arg.row.order_count
            seg == Val(fn_out)
            vip == t > Dollars(2000) /\ n > 10
            reg == ~vip /\ (t > Dollars(1000) \/ n > 5)
        IN  /\ seg \in {"VIP", "Regular", "New"}
            /\ (seg = "VIP") = vip
            /\ (seg = "Regular") = reg
            /\ (seg = "New") = (~vip /\ ~reg)
            /\ (t = Dollars(2001) /\ n = 11 => seg = "VIP")
            /\ (t = Dollars(2000) /\ n = 11 => seg = "Regular")
            /\ (t = Dollars(500) /\ n = 1 => seg = "New")

\* the call on (2000, 11), on the strict boundary, has returned Regular
C2_Witness ==
    /\ fn_arg.fn = "categorize_customer"
    /\ fn_arg.row = [total_spent |-> Dollars(2000), order_count |-> 11]
    /\ fn_out = Some("Regular")

\* the interval of the bucketing that holds x, for x > 0
BucketOf(x) ==
    CHOOSE b \in {"Low", "Medium", "High", "Premium"} :
        \/ b = "Low" /\ 0 < x /\ x <= Dollars(100)
        \/ b = "Medium" /\ Dollars(100) < x /\ x <= Dollars(500)
        \/ b = "High" /\ Dollars(500) < x /\ x <= Dollars(1000)
        \/ b = "Premium" /\ Dollars(1000) < x

\* C3 (as amended): an enriched record whose total_amount is positive gets
\* the label of the interval (0,100], (100,500], (500,1000], (1000,inf)
\* that holds it, so 100, 500 and 1000 fall in the lower bucket and 100.01
\* in the next; a record whose total_amount is missing or <= 0 gets no
\* label.
C3_BucketsOfPositiveAmounts ==
    (fn_arg.fn = "Enrich" /\ fn_out # NaN) =>
        LET a   == fn_arg.row.total_amount
            lab == Val(fn_out).revenue_category
        IN  /\ (a # NaN /\ Val(a) > 0) => lab = Some(BucketOf(Val(a)))
            /\ (a = NaN \/ Val(a) <= 0) => lab = NaN
            /\ (a = Some(Dollars(100)) => lab = Some("Low"))
            /\ (a = Some(Dollars(100) + 10) => lab = Some("Medium"))
            /\ (a = Some(Dollars(500)) => lab = Some("Medium"))
            /\ (a = Some(Dollars(1000)) => lab = Some("High"))
            /\ (a = Some(Dollars(1000000)) => lab = Some("Premium"))

\* a record with total_amount exactly 100 has been enriched and is Low
C3_Witness ==
    /\ fn_arg.fn = "Enrich"
    /\ fn_arg.row.total_amount = Some(Dollars(100))
    /\ fn_out # NaN
    /\ Val(fn_out).revenue_category = Some("Low")

\* C3 as stated: every record that reaches the enricher is assigned exactly
\* one of the four labels.
C3_EveryRecordLabelled ==
    (fn_arg.fn = "Enrich" /\ fn_out # NaN) =>
        Val(fn_out).revenue_category
            \in {Some("Low"), Some("Medium"), Some("High"), Some("Premium")}

Halted == pc \in {"done", "failed"}

RECURSIVE SumOverCustomers(_, _, _)
SumOverCustomers(cs, C, col) ==
    IF C = {} THEN 0
    ELSE LET c == CHOOSE x \in C : TRUE
         IN  cs[c][col] + SumOverCustomers(cs, C \ {c}, col)

\* C4: once the aggregates and the KPIs are computed, the total_spent of
\* the customer aggregates add up to total_revenue, whatever the validator
\* reported about the batch.
C4_SpentConservation ==
    total_revenue # NaN =>
        SumOverCustomers(customer_stats, DOMAIN customer_stats, "total_spent")
            = Val(total_revenue)

\* C5: once the aggregates and the KPIs are computed, the order_count of
\* the customer aggregates add up to total_transactions, the row count of
\* the enriched batch, and every aggregate has order_count >= 1.
C5_OrderCountConservation ==
    total_transactions # NaN =>
        /\ SumOverCustomers(customer_stats, DOMAIN customer_stats,
                            "order_count") = Val(total_transactions)
        /\ \A c \in DOMAIN customer_stats : customer_stats[c].order_count >= 1

\* C6: on a batch of zero transactions the run ends in its final stage
\* without raising, with total_revenue = 0, unique_customers = 0, every
\* grouped table empty, no peak hour and no undefined average or rate.
C6_EmptyBatchCompletes ==
    (Len(df_raw) = 0 /\ Halted) =>
        /\ pc = "done"
        /\ error = ""
        /\ total_revenue = Some(0)
        /\ unique_customers = Some(0)
        /\ revenue_by_category = Some(<<>>)
        /\ revenue_by_channel = Some(<<>>)
        /\ top_products = Some(<<>>)
        /\ hourly_sales = Some(<<>>)
        /\ peak_hour = NaN
        /\ avg_order_value # Some(NaN)
        /\ RetentionRate(customer_stats) # NaN

\* the row number at which a product is first met in the input batch
FirstSeen(df, p) ==
    CHOOSE i \in 1..Len(df) :
        /\ df[i].product_name = Some(p)
        /\ \A j \in 1..(i - 1) : df[j].product_name # Some(p)

\* C7: top_products holds at most 5 products in descending order of total
\* revenue, and products with the same total revenue appear in the order
\* in which they are first met in the input batch.
C7_TopProductsEncounterOrder ==
    top_products # NaN =>
        LET tp == Val(top_products)
        IN  /\ Len(tp) <= 5
            /\ \A i, j \in 1..Len(tp) :
                   i < j => tp[i].total_amount >= tp[j].total_amount
            /\ \A i, j \in 1..Len(tp) :
                   (i < j /\ tp[i].total_amount = tp[j].total_amount) =>
                       FirstSeen(df_raw, tp[i].key) < FirstSeen(df_raw, tp[j].key)

\* C8: no step changes the raw batch, and once STEP 3 has built the
\* enriched batch and the customer aggregates no later step changes either
\* of them.
C8_NoStageModifiesItsInput ==
    [][ /\ df_raw' = df_raw
        /\ (pc \notin {"validate", "etl"} =>
                /\ df_transformed' = df_transformed
                /\ customer_stats' = customer_stats) ]_vars

\* C9: whatever the validator reports, the batch it was given is left as it
\* is (the report counts every record) and the run goes on through
\* enrichment, aggregation, reporting and export of the full batch: it
\* never stops before the export summary is written.
C9_ValidationNeverGates ==
    /\ (quality_report # NaN =>
            Val(quality_report).total_records = Len(df_raw))
    /\ (pc \notin {"validate", "etl"} =>
            Len(df_transformed.rows) = Len(df_raw))
    /\ (Halted =>
            /\ pc = "done"
            /\ export_summary # NaN
            /\ Val(export_summary).sales_transactions.records = Len(df_raw))

\* the revenue of hour h, summed row by row over the enriched batch
RECURSIVE HourRevenue(_, _)
HourRevenue(rows, h) ==
    IF rows = <<>> THEN 0
    ELSE (IF Head(rows).hour = Some(h) /\ Head(rows).total_amount # NaN
          THEN Val(Head(rows).total_amount) ELSE 0)
         + HourRevenue(Tail(rows), h)

HoursPresent(rows) ==
    { h \in 0..23 : \E i \in 1..Len(rows) : rows[i].hour = Some(h) }

HourlyOk(rows, hs) ==
    /\ { hs[k].key : k \in 1..Len(hs) } = HoursPresent(rows)
    /\ \A k \in 1..Len(hs) :
           /\ hs[k].total_amount = HourRevenue(rows, hs[k].key)
           /\ \A l \in 1..(k - 1) : hs[l].key < hs[k].key

PeakOk(rows, peak) ==
    /\ peak \in HoursPresent(rows)
    /\ \A h \in HoursPresent(rows) :
           /\ HourRevenue(rows, h) <= HourRevenue(rows, peak)
           /\ HourRevenue(rows, h) = HourRevenue(rows, peak) => peak <= h

\* C10 (as amended): for every enriched batch in which at least one record
\* has a transaction_date, hourly_sales maps each hour that occurs to the
\* sum of total_amount of its records, in ascending hour order, and
\* peak_hour is the smallest hour of maximal revenue.  When no record has a
\* transaction_date hourly_sales is empty and no peak_hour is assigned.
C10_PeakHourFirstMax ==
    hourly_sales # NaN =>
        /\ HourlyOk(df_transformed.rows, Val(hourly_sales))
        /\ IF HoursPresent(df_transformed.rows) # {}
           THEN peak_hour # NaN /\ PeakOk(df_transformed.rows, Val(peak_hour))
           ELSE peak_hour = NaN

\* two hours tie for the largest revenue and peak_hour is the earlier one
C10_Witness ==
    /\ hourly_sales # NaN
    /\ peak_hour # NaN
    /\ \E h \in HoursPresent(df_transformed.rows) :
           /\ h > Val(peak_hour)
           /\ HourRevenue(df_transformed.rows, h) > 0
           /\ HourRevenue(df_transformed.rows, h)
                  = HourRevenue(df_transformed.rows, Val(peak_hour))

\* C10 as stated: for every non-empty enriched batch, peak_hour is an hour
\* of maximal hourly revenue, the first one on ties.
C10_PeakHourOfNonEmptyBatch ==
    (hourly_sales # NaN /\ Len(df_transformed.rows) > 0) =>
        /\ HourlyOk(df_transformed.rows, Val(hourly_sales))
        /\ peak_hour # NaN
        /\ PeakOk(df_transformed.rows, Val(peak_hour))

====
